---- MODULE Spec2Model ----
(***************************************************************************)
(* Model of the H1B job scraper: src/job.js (H1BJobScraper) and            *)
(* src/db_manager.js (DatabaseManager).                                    *)
(*                                                                         *)
(* JavaScript strings are sequences of one-character strings, so that      *)
(* toLowerCase, trim, includes, split and the regular expressions of the   *)
(* source are computed character by character.  undefined/null is the      *)
(* value Absent.  One action is one run-to-completion step of the event    *)
(* loop: the code between two awaits.                                      *)
(***************************************************************************)
EXTENDS Integers, Sequences, FiniteSets, TLC

\* ------------------------------------------------------------------------
\* JavaScript strings
\* ------------------------------------------------------------------------

\* undefined / null: a value no string of the model is equal to
Absent == <<"<undefined>">>

EmptyStr == <<>>

UpperChars == <<"A","B","C","D","E","F","G","H","I","J","K","L","M",
                "N","O","P","Q","R","S","T","U","V","W","X","Y","Z">>

LowerChars == <<"a","b","c","d","e","f","g","h","i","j","k","l","m",
                "n","o","p","q","r","s","t","u","v","w","x","y","z">>

DigitChars == <<"0","1","2","3","4","5","6","7","8","9">>

InSeq(c, s) == \E i \in 1..Len(s) : s[i] = c

\* String.prototype.toLowerCase on one character
LowerChar(c) ==
    IF InSeq(c, UpperChars)
    THEN LowerChars[CHOOSE i \in 1..Len(UpperChars) : UpperChars[i] = c]
    ELSE c

\* String.prototype.toUpperCase on one character
UpperChar(c) ==
    IF InSeq(c, LowerChars)
    THEN UpperChars[CHOOSE i \in 1..Len(LowerChars) : LowerChars[i] = c]
    ELSE c

toLowerCase(s) == [i \in 1..Len(s) |-> LowerChar(s[i])]

toUpperCase(s) == [i \in 1..Len(s) |-> UpperChar(s[i])]

\* \s of a regular expression, and the characters trim() removes
IsSpace(c) == c \in {" ", "\t", "\n"}

\* \w of a regular expression
IsWordChar(c) == InSeq(c, UpperChars) \/ InSeq(c, LowerChars) \/ InSeq(c, DigitChars) \/ c = "_"

RECURSIVE trimStart(_)
trimStart(s) ==
    IF s # <<>> /\ IsSpace(Head(s)) THEN trimStart(Tail(s)) ELSE s

RECURSIVE trimEnd(_)
trimEnd(s) ==
    IF s # <<>> /\ IsSpace(s[Len(s)]) THEN trimEnd(SubSeq(s, 1, Len(s) - 1)) ELSE s

\* String.prototype.trim
trim(s) == trimEnd(trimStart(s))

\* true when t occurs in s at position i (1-based)
MatchesAt(s, i, t) ==
    /\ i + Len(t) - 1 <= Len(s)
    /\ \A k \in 1..Len(t) : s[i + k - 1] = t[k]

\* String.prototype.includes
includes(s, t) == \E i \in 1..(Len(s) + 1) : MatchesAt(s, i, t)

\* a JavaScript value used as a condition: undefined, null and '' are falsy
Truthy(v) == v # Absent /\ v # EmptyStr

\* a || b on string-or-absent values
OrElse(a, b) == IF Truthy(a) THEN a ELSE b

\* a value interpolated in a template literal or concatenated to a string
ToStr(v) == IF v = Absent THEN <<"u","n","d","e","f","i","n","e","d">> ELSE v

\* Array.prototype.join(' ') on an array of strings
RECURSIVE joinSpace(_)
joinSpace(arr) ==
    IF arr = <<>> THEN <<>>
    ELSE IF Len(arr) = 1 THEN arr[1]
    ELSE arr[1] \o <<" ">> \o joinSpace(Tail(arr))

\* String.prototype.split(' '): the pieces between single spaces
RECURSIVE splitSpaceFrom(_, _)
splitSpaceFrom(s, cur) ==
    IF s = <<>> THEN <<cur>>
    ELSE IF Head(s) = " " THEN <<cur>> \o splitSpaceFrom(Tail(s), <<>>)
    ELSE splitSpaceFrom(Tail(s), Append(cur, Head(s)))

splitSpace(s) == splitSpaceFrom(s, <<>>)

Min(a, b) == IF a <= b THEN a ELSE b

\* ------------------------------------------------------------------------
\* CompanyMatcher: cleanCompanyName, isSubstantialMatch, isH1BCompany
\* ------------------------------------------------------------------------

\* the alternatives of the regular expression of cleanCompanyName, in the
\* order they are written; dot is TRUE for an alternative ending in \.?
SuffixAlternatives == <<
    [word |-> <<"i","n","c">>, dot |-> TRUE],
    [word |-> <<"l","l","c">>, dot |-> TRUE],
    [word |-> <<"c","o","r","p">>, dot |-> TRUE],
    [word |-> <<"c","o","r","p","o","r","a","t","i","o","n">>, dot |-> FALSE],
    [word |-> <<"c","o","m","p","a","n","y">>, dot |-> FALSE],
    [word |-> <<"c","o">>, dot |-> TRUE],
    [word |-> <<"l","t","d">>, dot |-> TRUE],
    [word |-> <<"l","i","m","i","t","e","d">>, dot |-> FALSE],
    [word |-> <<"s","e","r","v","i","c","e","s">>, dot |-> FALSE],
    [word |-> <<"g","r","o","u","p">>, dot |-> FALSE],
    [word |-> <<"t","e","c","h","n","o","l","o","g","i","e","s">>, dot |-> FALSE],
    [word |-> <<"t","e","c","h">>, dot |-> FALSE],
    [word |-> <<"s","y","s","t","e","m","s">>, dot |-> FALSE],
    [word |-> <<"s","o","l","u","t","i","o","n","s">>, dot |-> FALSE] >>

IsWordAt(s, p) == p >= 1 /\ p <= Len(s) /\ IsWordChar(s[p])

\* \b just before position p: exactly one of s[p-1], s[p] is a word character
WordBoundary(s, p) == IsWordAt(s, p - 1) # IsWordAt(s, p)

\* characters one alternative followed by \b consumes at position i (0: no match);
\* the optional dot is greedy and is given back when \b fails after it
AltMatchLen(s, i, alt) ==
    LET n == Len(alt.word) IN
    IF ~MatchesAt(s, i, alt.word) THEN 0
    ELSE IF alt.dot /\ i + n <= Len(s) /\ s[i + n] = "." /\ WordBoundary(s, i + n + 1)
         THEN n + 1
    ELSE IF WordBoundary(s, i + n) THEN n
    ELSE 0

RECURSIVE FirstAltMatchLen(_, _, _)
FirstAltMatchLen(s, i, k) ==
    IF k > Len(SuffixAlternatives) THEN 0
    ELSE IF AltMatchLen(s, i, SuffixAlternatives[k]) > 0
         THEN AltMatchLen(s, i, SuffixAlternatives[k])
    ELSE FirstAltMatchLen(s, i, k + 1)

\* characters the whole expression \b(...)\b consumes at position i (0: no match)
SuffixMatchLen(s, i) ==
    IF WordBoundary(s, i) THEN FirstAltMatchLen(s, i, 1) ELSE 0

\* .replace(/\b(inc\.?|...|solutions)\b/g, '')
RECURSIVE removeSuffixesFrom(_, _)
removeSuffixesFrom(s, i) ==
    IF i > Len(s) THEN <<>>
    ELSE IF SuffixMatchLen(s, i) > 0 THEN removeSuffixesFrom(s, i + SuffixMatchLen(s, i))
    ELSE <<s[i]>> \o removeSuffixesFrom(s, i + 1)

removeSuffixes(s) == removeSuffixesFrom(s, 1)

\* .replace(/[,\.]/g, '')
RECURSIVE removePunctuation(_)
removePunctuation(s) ==
    IF s = <<>> THEN <<>>
    ELSE IF Head(s) \in {",", "."} THEN removePunctuation(Tail(s))
    ELSE <<Head(s)>> \o removePunctuation(Tail(s))

\* .replace(/\s+/g, ' ')
RECURSIVE collapseSpaces(_)
collapseSpaces(s) ==
    IF s = <<>> THEN <<>>
    ELSE IF IsSpace(Head(s))
         THEN <<" ">> \o collapseSpaces(trimStart(Tail(s)))
    ELSE <<Head(s)>> \o collapseSpaces(Tail(s))

cleanCompanyName(name) ==
    trim(collapseSpaces(removePunctuation(removeSuffixes(name))))

\* .filter(w => w.length > 2)
RECURSIVE longWords(_)
longWords(arr) ==
    IF arr = <<>> THEN <<>>
    ELSE IF Len(Head(arr)) > 2 THEN <<Head(arr)>> \o longWords(Tail(arr))
    ELSE longWords(Tail(arr))

\* words1.filter(word => words2.includes(word)).length
RECURSIVE commonCount(_, _)
commonCount(words1, words2) ==
    IF words1 = <<>> THEN 0
    ELSE (IF InSeq(Head(words1), words2) THEN 1 ELSE 0) + commonCount(Tail(words1), words2)

\* matchRatio >= 0.6, on integers: common / min >= 6 / 10
isSubstantialMatch(name1, name2) ==
    LET words1 == longWords(splitSpace(name1))
        words2 == longWords(splitSpace(name2))
    IN IF Len(words1) = 0 \/ Len(words2) = 0 THEN FALSE
       ELSE 10 * commonCount(words1, words2) >= 6 * Min(Len(words1), Len(words2))

\* one iteration of the loop of isH1BCompany
FuzzyMatch(normalizedName, h1bCompany) ==
    LET cleanJobCompany == cleanCompanyName(normalizedName)
        cleanH1bCompany == cleanCompanyName(h1bCompany)
    IN \/ cleanJobCompany = cleanH1bCompany
       \/ includes(cleanJobCompany, cleanH1bCompany)
       \/ includes(cleanH1bCompany, cleanJobCompany)
       \/ isSubstantialMatch(cleanJobCompany, cleanH1bCompany)

\* a normalisation with the wrong case function
isH1BCompanyUpper(companyName, companies) ==
    IF ~Truthy(companyName) THEN FALSE
    ELSE LET normalizedName == trim(toUpperCase(companyName))
         IN \/ normalizedName \in companies
            \/ \E h1bCompany \in companies : FuzzyMatch(normalizedName, h1bCompany)

\* a normalisation that trims and leaves the case as it is
isH1BCompanyCaseSensitive(companyName, companies) ==
    IF ~Truthy(companyName) THEN FALSE
    ELSE LET normalizedName == trim(companyName)
         IN \/ normalizedName \in companies
            \/ \E h1bCompany \in companies : FuzzyMatch(normalizedName, h1bCompany)

\* isH1BCompany, with this.h1bCompanies passed as companies
isH1BCompany(companyName, companies) ==
    IF ~Truthy(companyName) THEN FALSE
    ELSE LET normalizedName == trim(toLowerCase(companyName))
         IN \/ normalizedName \in companies
            \/ \E h1bCompany \in companies : FuzzyMatch(normalizedName, h1bCompany)

\* ------------------------------------------------------------------------
\* JobRecordBuilder: extractWorkSetting, getATSApplyLink, extractJobType
\* ------------------------------------------------------------------------

\* an absent array of strings, and an absent array of apply options
AbsentList == <<Absent>>

AbsentOptions == <<[title |-> Absent, link |-> Absent]>>

kwRemote == <<"r","e","m","o","t","e">>

kwOnsite == <<"o","n","s","i","t","e">>

kwOffice == <<"o","f","f","i","c","e">>

kwOnDashSite == <<"o","n","-","s","i","t","e">>

WorkSettings == {"Hybrid", "Remote", "Onsite", "Not Specified"}

\* the single-keyword test for 'remote' placed before the test for Hybrid
extractWorkSettingRemoteFirst(description, extensions) ==
    LET text == toLowerCase(ToStr(description) \o <<" ">> \o
                            joinSpace(IF extensions = AbsentList THEN <<>> ELSE extensions))
    IN IF includes(text, kwRemote) THEN "Remote"
       ELSE IF includes(text, kwRemote) /\ (includes(text, kwOnsite) \/ includes(text, kwOffice))
       THEN "Hybrid"
       ELSE IF includes(text, kwOnsite) \/ includes(text, kwOffice) \/ includes(text, kwOnDashSite)
            THEN "Onsite"
       ELSE "Not Specified"

extractWorkSetting(description, extensions) ==
    LET text == toLowerCase(ToStr(description) \o <<" ">> \o
                            joinSpace(IF extensions = AbsentList THEN <<>> ELSE extensions))
    IN IF includes(text, kwRemote) /\ (includes(text, kwOnsite) \/ includes(text, kwOffice))
       THEN "Hybrid"
       ELSE IF includes(text, kwRemote) THEN "Remote"
       ELSE IF includes(text, kwOnsite) \/ includes(text, kwOffice) \/ includes(text, kwOnDashSite)
            THEN "Onsite"
       ELSE "Not Specified"

priorities == << <<"c","a","r","e","e","r">>, <<"j","o","b","s">>, <<"w","o","r","k","d","a","y">>, <<"g","r","e","e","n","h","o","u","s","e">>, <<"l","e","v","e","r">>, <<"b","a","m","b","o","o","h","r">> >>

OptionHas(option, priority) ==
    \/ includes(toLowerCase(option.title), priority)
    \/ includes(toLowerCase(option.link), priority)

\* applyOptions.find(...): the first option in list order that has the term
FindOption(applyOptions, priority) ==
    applyOptions[CHOOSE i \in 1..Len(applyOptions) :
                    /\ OptionHas(applyOptions[i], priority)
                    /\ \A j \in 1..(i - 1) : ~OptionHas(applyOptions[j], priority)]

RECURSIVE ATSLinkFrom(_, _)
ATSLinkFrom(applyOptions, k) ==
    IF k > Len(priorities) THEN applyOptions[1].link
    ELSE IF \E i \in 1..Len(applyOptions) : OptionHas(applyOptions[i], priorities[k])
         THEN FindOption(applyOptions, priorities[k]).link
    ELSE ATSLinkFrom(applyOptions, k + 1)

\* a scan that goes through the options first: the first option that has any
\* of the terms
getATSApplyLinkOptionFirst(applyOptions) ==
    IF applyOptions = AbsentOptions \/ Len(applyOptions) = 0 THEN EmptyStr
    ELSE LET hits == {i \in 1..Len(applyOptions) :
                        \E k \in 1..Len(priorities) : OptionHas(applyOptions[i], priorities[k])}
         IN IF hits = {} THEN applyOptions[1].link
            ELSE applyOptions[CHOOSE i \in hits : \A j \in hits : i <= j].link

getATSApplyLink(applyOptions) ==
    IF applyOptions = AbsentOptions \/ Len(applyOptions) = 0 THEN EmptyStr
    ELSE ATSLinkFrom(applyOptions, 1)

jobTypes == << <<"f","u","l","l","-","t","i","m","e">>, <<"p","a","r","t","-","t","i","m","e">>, <<"c","o","n","t","r","a","c","t">>, <<"i","n","t","e","r","n","s","h","i","p">>, <<"t","e","m","p","o","r","a","r","y">> >>

\* type.charAt(0).toUpperCase() + type.slice(1)
Capitalize(type) == <<UpperChar(type[1])>> \o Tail(type)

RECURSIVE JobTypeIn(_, _)
JobTypeIn(lowerExt, k) ==
    IF k > Len(jobTypes) THEN EmptyStr
    ELSE IF includes(lowerExt, jobTypes[k]) THEN Capitalize(jobTypes[k])
    ELSE JobTypeIn(lowerExt, k + 1)

RECURSIVE JobTypeFrom(_)
JobTypeFrom(extensions) ==
    IF extensions = <<>> THEN EmptyStr
    ELSE IF JobTypeIn(toLowerCase(Head(extensions)), 1) # EmptyStr
         THEN JobTypeIn(toLowerCase(Head(extensions)), 1)
    ELSE JobTypeFrom(Tail(extensions))

extractJobType(extensions) ==
    IF extensions = AbsentList THEN EmptyStr ELSE JobTypeFrom(extensions)

\* an object literal without the || '' defaults
BuildJobNoDefaults(job, now) ==
    [ company_name    |-> job.company_name,
      job_title       |-> job.title,
      posting_time    |-> OrElse(job.posted_at,
                                 OrElse(IF job.extensions # AbsentList /\ job.extensions # <<>>
                                        THEN job.extensions[1] ELSE Absent,
                                        EmptyStr)),
      job_location    |-> job.location,
      job_type        |-> OrElse(job.schedule_type,
                                 OrElse(extractJobType(job.extensions), EmptyStr)),
      job_description |-> job.description,
      work_setting    |-> extractWorkSetting(job.description, job.extensions),
      ats_apply_link  |-> getATSApplyLink(job.apply_options),
      scraped_at      |-> now ]

\* the object literal processedJob of processJobs, built at clock value now
BuildJob(job, now) ==
    [ company_name    |-> OrElse(job.company_name, EmptyStr),
      job_title       |-> OrElse(job.title, EmptyStr),
      posting_time    |-> OrElse(job.posted_at,
                                 OrElse(IF job.extensions # AbsentList /\ job.extensions # <<>>
                                        THEN job.extensions[1] ELSE Absent,
                                        EmptyStr)),
      job_location    |-> OrElse(job.location, EmptyStr),
      job_type        |-> OrElse(job.schedule_type,
                                 OrElse(extractJobType(job.extensions), EmptyStr)),
      job_description |-> OrElse(job.description, EmptyStr),
      work_setting    |-> extractWorkSetting(job.description, job.extensions),
      ats_apply_link  |-> getATSApplyLink(job.apply_options),
      scraped_at      |-> now ]

\* ------------------------------------------------------------------------
\* Bounds and inputs
\* ------------------------------------------------------------------------

\* executions of scrapeJobs one process starts
MaxRuns == 2

\* items on a page of the search provider, besides the ten-item page below
MaxPageItems == 1

\* job rows of one batch whose write the store fails
MaxRowFailures == 1

\* the executions of scrapeJobs that can be in progress together: the one the
\* timer started last and the one before it
Slots == {"first", "second"}

\* const maxPages = 3 (processJobs)
maxPages == 3

\* startIndex += 10 (processJobs)
pageSize == 10

RawItem(company, title, description, extensions, options) ==
    [ company_name  |-> company,
      title         |-> title,
      location      |-> <<"N","Y","C">>,
      description   |-> description,
      posted_at     |-> Absent,
      schedule_type |-> Absent,
      extensions    |-> extensions,
      apply_options |-> options ]

\* a posting of a sponsor found by the fuzzy rules
ItemGoogle ==
    RawItem(<<"G","o","o","g","l","e"," ","L","L","C">>, <<"D","a","t","a"," ","E","n","g","i","n","e","e","r">>, <<"R","e","m","o","t","e">>, << <<"1"," ","d","a","y"," ","a","g","o">>, <<"F","u","l","l","-","t","i","m","e">> >>,
            << [title |-> <<"I","n","d","e","e","d">>, link |-> <<"i","n",".","d","e","/","1">>],
               [title |-> <<"C","a","r","e","e","r","s">>, link |-> <<"g",".","c","o","/","2">>] >>)

\* a posting of a sponsor found by the exact rule, without a title
ItemAcme ==
    RawItem(<<"A","C","M","E">>, Absent, Absent, AbsentList, AbsentOptions)

\* a posting of a company that is no sponsor
ItemZed ==
    RawItem(<<"Z","e","d">>, <<"D","a","t","a"," ","E","n","g","i","n","e","e","r">>, <<"O","n","-","s","i","t","e"," ","o","n","l","y">>, <<>>, <<>>)

ItemUniverse == {ItemGoogle, ItemAcme, ItemZed}

RECURSIVE SeqsUpTo(_, _)
SeqsUpTo(S, n) ==
    IF n = 0 THEN {<<>>}
    ELSE LET shorter == SeqsUpTo(S, n - 1)
         IN shorter \cup {Append(s, x) : s \in {q \in shorter : Len(q) = n - 1}, x \in S}

\* page 1 of the end-to-end scenario: ten items, three of them of sponsors
ExamplePage ==
    << ItemGoogle, ItemZed, ItemZed, ItemAcme, ItemZed,
       ItemZed, ItemZed, ItemGoogle, ItemZed, ItemZed >>

\* a response without a jobs_results field
NoResults == <<[company_name |-> Absent]>>

\* response.data.jobs_results of one call
PageUniverse == SeqsUpTo(ItemUniverse, MaxPageItems) \cup {ExamplePage, NoResults}

\* the employer column of h1b_companies.csv, row by row
CsvUniverse == { <<>>, << <<"G","o","o","g","l","e">>, <<" ","A","c","m","e"," ">> >> }

\* ------------------------------------------------------------------------
\* DatabaseManager: the tables, generateJobHash, the batch inserts
\* ------------------------------------------------------------------------

\* a hash string that also takes the job type in
generateJobHashWithType(job) ==
    << "md5", ToStr(job.company_name) \o <<"-">> \o ToStr(job.job_title) \o <<"-">> \o
              ToStr(job.job_location) \o <<"-">> \o ToStr(job.posting_time) \o <<"-">> \o
              ToStr(job.job_type) >>

\* the template literal of generateJobHash; md5 is taken to be free of
\* collisions, so the digest is identified with the string it is computed from
generateJobHash(job) ==
    << "md5", ToStr(job.company_name) \o <<"-">> \o ToStr(job.job_title) \o <<"-">> \o
              ToStr(job.job_location) \o <<"-">> \o ToStr(job.posting_time) >>

\* the row INSERT OR IGNORE INTO jobs writes for one job
JobRow(job) ==
    [ job_hash        |-> generateJobHash(job),
      company_name    |-> job.company_name,
      job_title       |-> job.job_title,
      posting_time    |-> job.posting_time,
      job_location    |-> job.job_location,
      job_type        |-> job.job_type,
      job_description |-> job.job_description,
      work_setting    |-> job.work_setting,
      ats_apply_link  |-> job.ats_apply_link,
      scraped_at      |-> job.scraped_at ]

HasHash(table, h) == \E row \in table : row.job_hash = h

\* a loop that leaves the batch at the first record the store already has
RECURSIVE RunInsertsStopAtDuplicate(_, _, _, _)
RunInsertsStopAtDuplicate(jobs, i, failing, acc) ==
    IF i > Len(jobs) THEN acc
    ELSE LET row == [ job_hash        |-> generateJobHash(jobs[i]),
                      company_name    |-> jobs[i].company_name,
                      job_title       |-> jobs[i].job_title,
                      posting_time    |-> jobs[i].posting_time,
                      job_location    |-> jobs[i].job_location,
                      job_type        |-> jobs[i].job_type,
                      job_description |-> jobs[i].job_description,
                      work_setting    |-> jobs[i].work_setting,
                      ats_apply_link  |-> jobs[i].ats_apply_link,
                      scraped_at      |-> jobs[i].scraped_at ]
         IN IF i \in failing
            THEN RunInsertsStopAtDuplicate(jobs, i + 1, failing, acc)
            ELSE IF \E r \in acc.table : r.job_hash = row.job_hash
            THEN [acc EXCEPT !.duplicated = @ + 1]
            ELSE RunInsertsStopAtDuplicate(jobs, i + 1, failing,
                     [acc EXCEPT !.inserted = @ + 1, !.table = @ \cup {row}])

\* INSERT OR REPLACE in place of INSERT OR IGNORE: the row of a fingerprint is
\* overwritten by the record that comes later
RECURSIVE RunInsertsReplace(_, _, _, _)
RunInsertsReplace(jobs, i, failing, acc) ==
    IF i > Len(jobs) THEN acc
    ELSE IF i \in failing THEN RunInsertsReplace(jobs, i + 1, failing, acc)
    ELSE LET hash == generateJobHash(jobs[i])
             row  == [ job_hash        |-> hash,
                       company_name    |-> jobs[i].company_name,
                       job_title       |-> jobs[i].job_title,
                       posting_time    |-> jobs[i].posting_time,
                       job_location    |-> jobs[i].job_location,
                       job_type        |-> jobs[i].job_type,
                       job_description |-> jobs[i].job_description,
                       work_setting    |-> jobs[i].work_setting,
                       ats_apply_link  |-> jobs[i].ats_apply_link,
                       scraped_at      |-> jobs[i].scraped_at ]
         IN IF \E r \in acc.table : r.job_hash = hash
            THEN RunInsertsReplace(jobs, i + 1, failing,
                     [acc EXCEPT !.duplicated = @ + 1,
                                 !.table = {r \in @ : r.job_hash # hash} \cup {row}])
            ELSE RunInsertsReplace(jobs, i + 1, failing,
                     [acc EXCEPT !.inserted = @ + 1, !.table = @ \cup {row}])

\* a row callback that counts every write without error as an insert
RECURSIVE RunInsertsCountAll(_, _, _, _)
RunInsertsCountAll(jobs, i, failing, acc) ==
    IF i > Len(jobs) THEN acc
    ELSE IF i \in failing THEN RunInsertsCountAll(jobs, i + 1, failing, acc)
    ELSE RunInsertsCountAll(jobs, i + 1, failing,
             [acc EXCEPT !.inserted = @ + 1,
                         !.table = IF \E r \in @ : r.job_hash = generateJobHash(jobs[i])
                                   THEN @
                                   ELSE @ \cup {[ job_hash        |-> generateJobHash(jobs[i]),
                                                  company_name    |-> jobs[i].company_name,
                                                  job_title       |-> jobs[i].job_title,
                                                  posting_time    |-> jobs[i].posting_time,
                                                  job_location    |-> jobs[i].job_location,
                                                  job_type        |-> jobs[i].job_type,
                                                  job_description |-> jobs[i].job_description,
                                                  work_setting    |-> jobs[i].work_setting,
                                                  ats_apply_link  |-> jobs[i].ats_apply_link,
                                                  scraped_at      |-> jobs[i].scraped_at ]}])

\* the statements of one batch of insertJobs, in order, from the i-th job on;
\* failing: the positions whose stmt.run calls back with an error;
\* acc: the table and the two counters so far
RECURSIVE RunInserts(_, _, _, _)
RunInserts(jobs, i, failing, acc) ==
    IF i > Len(jobs) THEN acc
    ELSE LET row == JobRow(jobs[i])
         IN IF i \in failing
            THEN RunInserts(jobs, i + 1, failing, acc)
            ELSE IF HasHash(acc.table, row.job_hash)
            THEN RunInserts(jobs, i + 1, failing,
                            [acc EXCEPT !.duplicated = @ + 1])
            ELSE RunInserts(jobs, i + 1, failing,
                            [acc EXCEPT !.inserted = @ + 1, !.table = @ \cup {row}])

\* insertJobs up to COMMIT
insertJobs(jobs, table, failing) ==
    IF Len(jobs) = 0 THEN [table |-> table, inserted |-> 0, duplicated |-> 0]
    ELSE RunInserts(jobs, 1, failing, [table |-> table, inserted |-> 0, duplicated |-> 0])

\* the parameters logScrapingRun binds to its INSERT
LogRow(st) ==
    [ jobs_scraped    |-> st.jobsScraped,
      jobs_filtered   |-> st.jobsFiltered,
      jobs_inserted   |-> st.jobsInserted,
      jobs_duplicated |-> st.jobsDuplicated,
      status          |-> st.status,
      error_message   |-> st.errorMessage,
      api_calls_made  |-> st.apiCallsMade ]

\* SELECT normalized_name FROM h1b_companies, as a Set
getH1BCompanies(table) == {row.normalized_name : row \in table}

\* INSERT OR IGNORE INTO h1b_companies for each company (company_name is UNIQUE)
insertH1BCompanies(companies, table) ==
    table \cup { [company_name |-> c, normalized_name |-> trim(toLowerCase(c))] :
                 c \in {d \in companies : \A row \in table : row.company_name # d} }

\* ------------------------------------------------------------------------
\* H1BJobScraper: loading the reference set
\* ------------------------------------------------------------------------

IsQuote(c) == c \in {"\"", "'"}

\* .replace(/^["']|["']$/g, '')
stripQuotes(s) ==
    LET a == IF s # <<>> /\ IsQuote(Head(s)) THEN Tail(s) ELSE s
    IN IF a # <<>> /\ IsQuote(a[Len(a)]) THEN SubSeq(a, 1, Len(a) - 1) ELSE a

\* the 'data' handler of loadH1BCompanies on every row, then new Set(companies)
LoadCsv(rows) ==
    { toLowerCase(trim(stripQuotes(rows[i]))) :
        i \in { k \in 1..Len(rows) : Truthy(rows[k]) /\ Truthy(trim(stripQuotes(rows[k]))) } }

\* ------------------------------------------------------------------------
\* State
\* ------------------------------------------------------------------------

VARIABLES
    mainPc,        \* main(): "start", "scheduled" (setInterval armed), "exited"
    h1bTable,      \* table h1b_companies
    h1bCompanies,  \* this.h1bCompanies
    stats,         \* this.stats, shared by all executions of scrapeJobs
    jobsTable,     \* table jobs
    clock,         \* what new Date() returns: the executions started so far
    run,           \* the executions of scrapeJobs: position and locals of each
    probe          \* the last call a client other than scrapeJobs made of a
                   \* method of the two classes: its arguments and what it returned

vars == <<mainPc, h1bTable, h1bCompanies, stats, jobsTable, clock, run, probe>>

\* no such call: main() is the only client
NoProbe == [op |-> "none"]

\* the object literal assigned to this.stats (constructor and scrapeJobs)
FreshStats ==
    [ jobsScraped    |-> 0,
      jobsFiltered   |-> 0,
      jobsInserted   |-> 0,
      jobsDuplicated |-> 0,
      apiCallsMade   |-> 0,
      status         |-> "success",
      errorMessage   |-> "null" ]

\* an execution of scrapeJobs that has not started.
\* pc: "idle", "fetching" (await axios.get), "delay" (await setTimeout),
\*     "inserting" (await insertJobs), "csv" (await saveJobsToCSV),
\*     "logging" (await logScrapingRun, line 381),
\*     "errlogging" (await logScrapingRun, line 395), "done", "failed".
\* The fields from logCalls on record what the execution did and what its
\* collaborators answered; the code does not read them.
\* pageSizes: the number of items of each response, in order; fetchedMatches:
\* how many of all these items have a company name that passes isH1BCompany.
\* insertOutcome: "resolved" or "rejected" once insertJobs has settled, with
\* rowFailures the positions of the batch whose write failed and tableBefore
\* table jobs as it was before the batch.
\* logRows: the rows this execution added to table scraping_logs;
\* csvRecords: the records it appended to h1b_job_results.csv.  Both are
\* only ever appended to and never read back by the scraper.
IdleRun ==
    [ pc             |-> "idle",
      page           |-> 0,
      startIndex     |-> 0,
      allJobs        |-> <<>>,
      returned       |-> FALSE,
      caught         |-> "none",
      thrown         |-> "none",
      pendingLog     |-> <<>>,
      logCalls       |-> 0,
      logRows        |-> <<>>,
      csvRecords     |-> <<>>,
      insertOutcome  |-> "none",
      rowFailures    |-> {},
      tableBefore    |-> {},
      logFailedInCatch |-> FALSE,
      requests       |-> <<>>,
      pageSizes      |-> <<>>,
      fetchedMatches |-> 0,
      failedCalls    |-> 0,
      sawEmpty       |-> FALSE ]

\* the errors of the collaborators, named by their message
ErrFetch == "search request failed"

ErrCommit == "commit failed"

ErrCsv == "csv write failed"

ErrLog == "log insert failed"

ErrLogAgain == "log insert failed in catch"

\* ------------------------------------------------------------------------
\* H1BJobScraper: the synchronous stretches of a run
\* ------------------------------------------------------------------------

\* the request axios.get sends; startIndex is only printed by fetchJobs
Request(startIndex) ==
    [ url    |-> "https://serpapi.com/search.json",
      params |-> [engine |-> "google_jobs", q |-> "Data Engineer", hl |-> "en",
                  api_key |-> "serpApiKey"] ]

\* fetchJobs up to its await
fetchJobs(rn, startIndex) ==
    [rn EXCEPT !.pc = "fetching", !.requests = Append(@, Request(startIndex))]

\* a call of dbManager.logScrapingRun(this.stats): the row is bound at the call
logScrapingRun(rn, st) ==
    [rn EXCEPT !.pendingLog = <<LogRow(st)>>, !.logCalls = @ + 1]

\* the catch block of scrapeJobs up to its await
scrapeJobsCatch(rn, st, error) ==
    LET st1 == [st EXCEPT !.status = "error", !.errorMessage = error]
    IN [ run   |-> logScrapingRun([rn EXCEPT !.caught = error, !.pc = "errlogging"], st1),
         stats |-> st1 ]

\* scrapeJobs from the return of saveJobs to the await of line 381
afterSaveJobs(rn, st) ==
    [ run   |-> logScrapingRun([rn EXCEPT !.pc = "logging"], st),
      stats |-> st ]

\* a saveJobs that treats an empty list as a failure
saveJobsFailsOnEmpty(rn, st) ==
    IF Len(rn.allJobs) = 0
    THEN scrapeJobsCatch(rn, [st EXCEPT !.status = "error",
                                        !.errorMessage = "no jobs to save"],
                         "no jobs to save")
    ELSE [run |-> [rn EXCEPT !.pc = "inserting"], stats |-> st]

\* saveJobs(jobs) up to its first await
saveJobs(rn, st) ==
    IF Len(rn.allJobs) = 0 THEN afterSaveJobs(rn, st)
    ELSE [run |-> [rn EXCEPT !.pc = "inserting"], stats |-> st]

\* return allJobs, then scrapeJobs up to its next await
processJobsReturn(rn, st) ==
    saveJobs([rn EXCEPT !.returned = TRUE], st)

\* a catch block that sets the two fields and returns the list instead of
\* rethrowing
rethrowSwallowed(rn, st, error) ==
    processJobsReturn(rn, [st EXCEPT !.status = "error", !.errorMessage = error])

\* the catch blocks of fetchJobs, processJobs and saveJobs: each sets the
\* same two fields and rethrows, up to the catch block of scrapeJobs
rethrowToScrapeJobs(rn, st, error) ==
    scrapeJobsCatch(rn, [st EXCEPT !.status = "error", !.errorMessage = error], error)

\* a loop that counts an item as filtered before it tests the company
RECURSIVE ProcessItemsCountAll(_, _, _, _, _)
ProcessItemsCountAll(items, i, companies, now, acc) ==
    IF i > Len(items) THEN acc
    ELSE LET counted == [acc EXCEPT !.stats.jobsFiltered = @ + 1]
         IN IF ~isH1BCompany(items[i].company_name, companies)
            THEN ProcessItemsCountAll(items, i + 1, companies, now, counted)
            ELSE ProcessItemsCountAll(items, i + 1, companies, now,
                     [counted EXCEPT !.allJobs = Append(@, BuildJob(items[i], now))])

\* the loop over data.jobs_results, from the i-th item on;
\* acc: allJobs and this.stats so far
RECURSIVE ProcessItems(_, _, _, _, _)
ProcessItems(items, i, companies, now, acc) ==
    IF i > Len(items) THEN acc
    ELSE IF ~isH1BCompany(items[i].company_name, companies)
         THEN ProcessItems(items, i + 1, companies, now, acc)
    ELSE ProcessItems(items, i + 1, companies, now,
                      [ allJobs |-> Append(acc.allJobs, BuildJob(items[i], now)),
                        stats   |-> [acc.stats EXCEPT !.jobsFiltered = @ + 1] ])

\* a test that misses the empty list
NoMoreJobsMissingOnly(data) == data = NoResults

\* the test that ends the loop of processJobs after a fetch
NoMoreJobs(data) == data = NoResults \/ Len(data) = 0

\* a loop body that sends the request of the next page before it goes through
\* the items of this one
processPageFetchFirst(rn, st, data, companies, now) ==
    IF NoMoreJobs(data) THEN processJobsReturn(rn, st)
    ELSE [ run   |-> fetchJobs([rn EXCEPT !.page = @ + 1, !.startIndex = @ + pageSize],
                               rn.startIndex + pageSize),
           stats |-> [st EXCEPT !.jobsScraped = @ + Len(data)] ]

\* processJobs from the return of fetchJobs to its next await
processPage(rn, st, data, companies, now) ==
    IF NoMoreJobs(data) THEN processJobsReturn(rn, st)
    ELSE LET acc == ProcessItems(data, 1, companies, now,
                                 [ allJobs |-> rn.allJobs,
                                   stats   |-> [st EXCEPT !.jobsScraped = @ + Len(data)] ])
         IN [ run   |-> [rn EXCEPT !.allJobs = acc.allJobs,
                                   !.startIndex = @ + pageSize,
                                   !.pc = "delay"],
              stats |-> acc.stats ]

\* a loop test that is off by one: page <= maxPages
nextPageOffByOne(rn, st) ==
    IF rn.page + 1 <= maxPages
    THEN [run |-> fetchJobs([rn EXCEPT !.page = @ + 1], rn.startIndex), stats |-> st]
    ELSE processJobsReturn([rn EXCEPT !.page = @ + 1], st)

\* the for statement of processJobs after the delay: page++, the test, the body
nextPage(rn, st) ==
    IF rn.page + 1 < maxPages
    THEN [run |-> fetchJobs([rn EXCEPT !.page = @ + 1], rn.startIndex), stats |-> st]
    ELSE processJobsReturn([rn EXCEPT !.page = @ + 1], st)

\* scrapeJobs up to its first await: the reset of this.stats, processJobs,
\* the first fetchJobs
scrapeJobsStart == fetchJobs([IdleRun EXCEPT !.pc = "fetching"], 0)

\* ------------------------------------------------------------------------
\* Actions: one per step of the event loop
\* ------------------------------------------------------------------------

TypeOK ==
    /\ mainPc \in {"start", "scheduled", "exited"}
    /\ clock \in 0..MaxRuns
    /\ \A s \in Slots : run[s].pc \in {"idle", "fetching", "delay", "inserting", "csv",
                                       "logging", "errlogging", "done", "failed"}

\* loadH1BCompanies: the database first, the CSV file when it has no company
loadH1BCompanies(table, rows) ==
    IF Cardinality(getH1BCompanies(table)) > 0 THEN getH1BCompanies(table)
    ELSE LoadCsv(rows)

\* a database file holds the companies an earlier start of the program stored
StoredCompanyTables ==
    { insertH1BCompanies(LoadCsv(rows), {}) : rows \in CsvUniverse }

Init ==
    /\ mainPc = "start"
    /\ h1bTable \in StoredCompanyTables
    /\ h1bCompanies = {}
    /\ stats = FreshStats
    /\ jobsTable = {}
    /\ clock = 0
    /\ run = [s \in Slots |-> IdleRun]
    /\ probe = NoProbe

InProgress(s) == run[s].pc \notin {"idle", "done", "failed"}

\* a call of scrapeJobs, up to its first await
StartScrape(s) ==
    /\ clock < MaxRuns
    /\ ~InProgress(s)
    /\ stats' = FreshStats
    /\ clock' = clock + 1
    /\ run' = [run EXCEPT ![s] = scrapeJobsStart]

\* main(): initialize() fails (the database cannot be opened or read; the CSV
\* file is missing or cannot be read; the COMMIT of insertH1BCompanies fails):
\* cleanup, exit
InitializeFails ==
    /\ mainPc = "start"
    /\ \E fault \in {"database", "csv", "commit"} :
          /\ fault = "csv" => Cardinality(getH1BCompanies(h1bTable)) = 0
          /\ \/ /\ fault = "commit"
                /\ \E rows \in CsvUniverse :
                      /\ h1bCompanies' = loadH1BCompanies(h1bTable, rows)
                      /\ Cardinality(h1bCompanies') > 0
             \/ /\ fault # "commit"
                /\ h1bCompanies' = h1bCompanies
    /\ mainPc' = "exited"
    /\ UNCHANGED <<probe, h1bTable, stats, jobsTable, clock, run>>

\* main(): initialize() succeeds, then startAutomatedScraping() calls
\* scrapeJobs at once and arms the hourly timer
Initialize ==
    /\ mainPc = "start"
    /\ \E rows \in CsvUniverse :
          h1bCompanies' = loadH1BCompanies(h1bTable, rows)
    /\ h1bTable' = IF Cardinality(h1bCompanies') > 0
                   THEN insertH1BCompanies(h1bCompanies', h1bTable)
                   ELSE h1bTable
    /\ mainPc' = "scheduled"
    /\ StartScrape("first")
    /\ UNCHANGED <<probe, jobsTable>>

\* the setInterval callback, one hour after the previous call of scrapeJobs,
\* which has finished by then
TimerFires ==
    /\ mainPc = "scheduled"
    /\ \A s \in Slots : ~InProgress(s)
    /\ StartScrape("first")
    /\ UNCHANGED <<probe, mainPc, h1bTable, h1bCompanies, jobsTable>>

\* the number of items a response carries, and the number of them whose
\* company name passes isH1BCompany
ItemCount(data) == IF data = NoResults THEN 0 ELSE Len(data)

SponsorCount(data, companies) ==
    Cardinality({i \in 1..ItemCount(data) : isH1BCompany(data[i].company_name, companies)})

\* fetchJobs after a response: this.stats.apiCallsMade++
fetchJobsResolve(st) == [st EXCEPT !.apiCallsMade = @ + 1]

\* axios.get resolves with data, one of pages
FetchResolves(s, pages) ==
    /\ run[s].pc = "fetching"
    /\ \E data \in pages :
          LET rn == [run[s] EXCEPT
                        !.pageSizes = Append(@, ItemCount(data)),
                        !.fetchedMatches = @ + SponsorCount(data, h1bCompanies),
                        !.sawEmpty = (ItemCount(data) = 0)]
              next == processPage(rn, fetchJobsResolve(stats), data, h1bCompanies, clock)
          IN /\ run' = [run EXCEPT ![s] = next.run]
             /\ stats' = next.stats
    /\ UNCHANGED <<probe, mainPc, h1bTable, h1bCompanies, jobsTable, clock>>

FetchOk(s) == FetchResolves(s, PageUniverse)

\* axios.get rejects
FetchFail(s) ==
    /\ run[s].pc = "fetching"
    /\ LET next == rethrowToScrapeJobs([run[s] EXCEPT !.failedCalls = @ + 1], stats, ErrFetch)
       IN /\ run' = [run EXCEPT ![s] = next.run]
          /\ stats' = next.stats
    /\ UNCHANGED <<probe, mainPc, h1bTable, h1bCompanies, jobsTable, clock>>

\* the one-second timer between two pages fires
DelayDone(s) ==
    /\ run[s].pc = "delay"
    /\ LET next == nextPage(run[s], stats)
       IN /\ run' = [run EXCEPT ![s] = next.run]
          /\ stats' = next.stats
    /\ UNCHANGED <<probe, mainPc, h1bTable, h1bCompanies, jobsTable, clock>>

\* the sets of at most n positions of a batch
FailureSets(len, n) == {F \in SUBSET (1..len) : Cardinality(F) <= n}

\* insertJobs resolves: every row callback ran, COMMIT succeeded; saveJobs
\* copies the counters and goes on to saveJobsToCSV
InsertResolves(s) ==
    /\ run[s].pc = "inserting"
    /\ \E failing \in FailureSets(Len(run[s].allJobs), MaxRowFailures) :
          LET res == insertJobs(run[s].allJobs, jobsTable, failing)
          IN /\ jobsTable' = res.table
             /\ stats' = [stats EXCEPT !.jobsInserted = res.inserted,
                                       !.jobsDuplicated = res.duplicated]
             /\ run' = [run EXCEPT ![s].pc = "csv", ![s].rowFailures = failing,
                                   ![s].tableBefore = jobsTable,
                                   ![s].insertOutcome = "resolved"]
    /\ UNCHANGED <<probe, mainPc, h1bTable, h1bCompanies, clock>>

\* insertJobs rejects: COMMIT failed; the rows written so far are either
\* rolled back by the store or left in the transaction the connection still sees
InsertRejects(s) ==
    /\ run[s].pc = "inserting"
    /\ \E failing \in FailureSets(Len(run[s].allJobs), MaxRowFailures) :
          /\ jobsTable' \in {jobsTable, insertJobs(run[s].allJobs, jobsTable, failing).table}
          /\ LET next == rethrowToScrapeJobs([run[s] EXCEPT !.rowFailures = failing,
                                                           !.tableBefore = jobsTable,
                                                           !.insertOutcome = "rejected"],
                                             stats, ErrCommit)
             IN /\ run' = [run EXCEPT ![s] = next.run]
                /\ stats' = next.stats
    /\ UNCHANGED <<probe, mainPc, h1bTable, h1bCompanies, clock>>

\* saveJobsToCSV resolves: the records are appended to the backup file
CsvResolves(s) ==
    /\ run[s].pc = "csv"
    /\ LET next == afterSaveJobs([run[s] EXCEPT !.csvRecords = @ \o run[s].allJobs], stats)
       IN /\ run' = [run EXCEPT ![s] = next.run]
          /\ stats' = next.stats
    /\ UNCHANGED <<probe, mainPc, h1bTable, h1bCompanies, jobsTable, clock>>

\* saveJobsToCSV rejects
CsvRejects(s) ==
    /\ run[s].pc = "csv"
    /\ LET next == rethrowToScrapeJobs(run[s], stats, ErrCsv)
       IN /\ run' = [run EXCEPT ![s] = next.run]
          /\ stats' = next.stats
    /\ UNCHANGED <<probe, mainPc, h1bTable, h1bCompanies, jobsTable, clock>>

\* logScrapingRun of line 381 resolves: scrapeJobs returns jobs
LogResolves(s) ==
    /\ run[s].pc = "logging"
    /\ run' = [run EXCEPT ![s].pc = "done",
                          ![s].logRows = @ \o run[s].pendingLog,
                          ![s].pendingLog = <<>>]
    /\ UNCHANGED <<probe, mainPc, h1bTable, h1bCompanies, stats, jobsTable, clock>>

\* logScrapingRun of line 381 rejects: the catch block of scrapeJobs
LogRejects(s) ==
    /\ run[s].pc = "logging"
    /\ LET next == scrapeJobsCatch(run[s], stats, ErrLog)
       IN /\ run' = [run EXCEPT ![s] = next.run]
          /\ stats' = next.stats
    /\ UNCHANGED <<probe, mainPc, h1bTable, h1bCompanies, jobsTable, clock>>

\* the error scrapeJobs rejects with when the logScrapingRun of its catch
\* block resolves: throw error
rethrowAfterLog(rn) == rn.caught

\* the error scrapeJobs rejects with when the logScrapingRun of its catch
\* block rejects: the await throws inside the catch block
rethrowAfterFailedLog(rn) == ErrLogAgain

\* logScrapingRun of line 395 resolves: throw error
ErrLogResolves(s) ==
    /\ run[s].pc = "errlogging"
    /\ run' = [run EXCEPT ![s].pc = "failed",
                          ![s].logRows = @ \o run[s].pendingLog,
                          ![s].pendingLog = <<>>,
                          ![s].thrown = rethrowAfterLog(run[s])]
    /\ UNCHANGED <<probe, mainPc, h1bTable, h1bCompanies, stats, jobsTable, clock>>

\* logScrapingRun of line 395 rejects
ErrLogRejects(s) ==
    /\ run[s].pc = "errlogging"
    /\ run' = [run EXCEPT ![s].pc = "failed",
                          ![s].pendingLog = <<>>,
                          ![s].logFailedInCatch = TRUE,
                          ![s].thrown = rethrowAfterFailedLog(run[s])]
    /\ UNCHANGED <<probe, mainPc, h1bTable, h1bCompanies, stats, jobsTable, clock>>

Next ==
    \/ InitializeFails
    \/ Initialize
    \/ TimerFires
    \/ \E s \in Slots : FetchOk(s)
    \/ \E s \in Slots : FetchFail(s)
    \/ \E s \in Slots : DelayDone(s)
    \/ \E s \in Slots : InsertResolves(s)
    \/ \E s \in Slots : InsertRejects(s)
    \/ \E s \in Slots : CsvResolves(s)
    \/ \E s \in Slots : CsvRejects(s)
    \/ \E s \in Slots : LogResolves(s)
    \/ \E s \in Slots : LogRejects(s)
    \/ \E s \in Slots : ErrLogResolves(s)
    \/ \E s \in Slots : ErrLogRejects(s)

\* runs that do not overlap: every execution of scrapeJobs ends within the hour
Spec == Init /\ [][Next]_vars

\* the setInterval callback while the execution it started an hour ago is
\* still awaiting a response of the search provider (axios.get has no timeout):
\* a second execution of scrapeJobs starts on the same scraper
TimerFiresEarly ==
    /\ mainPc = "scheduled"
    /\ run["first"].pc = "fetching"
    /\ StartScrape("second")
    /\ UNCHANGED <<probe, mainPc, h1bTable, h1bCompanies, jobsTable>>

\* the responses of the provider while two executions are in progress: a page
\* with a posting of a sponsor, a page without results
OverlapPages == {<<ItemGoogle>>, <<>>}

OverlapFetchOk(s) == FetchResolves(s, OverlapPages)

NextOverlap ==
    \/ InitializeFails
    \/ Initialize
    \/ TimerFires
    \/ TimerFiresEarly
    \/ \E s \in Slots : OverlapFetchOk(s)
    \/ \E s \in Slots : FetchFail(s)
    \/ \E s \in Slots : DelayDone(s)
    \/ \E s \in Slots : InsertResolves(s)
    \/ \E s \in Slots : InsertRejects(s)
    \/ \E s \in Slots : CsvResolves(s)
    \/ \E s \in Slots : CsvRejects(s)
    \/ \E s \in Slots : LogResolves(s)
    \/ \E s \in Slots : LogRejects(s)
    \/ \E s \in Slots : ErrLogResolves(s)
    \/ \E s \in Slots : ErrLogRejects(s)

\* runs that may overlap
SpecOverlap == Init /\ [][NextOverlap]_vars

\* ------------------------------------------------------------------------
\* DatabaseManager.insertJobs called batch after batch on one database
\* ------------------------------------------------------------------------

\* records of one batch
MaxBatch == 2

\* a record processJobs builds, and a record with the same company, title,
\* location and posting time whose five other fields all differ
JobGoogle == BuildJob(ItemGoogle, 1)

JobGoogleTwin ==
    [JobGoogle EXCEPT !.job_type        = <<"C","o","n","t","r","a","c","t">>,
                      !.job_description = <<"O","f","f","i","c","e">>,
                      !.work_setting    = "Onsite",
                      !.ats_apply_link  = EmptyStr,
                      !.scraped_at      = 2]

JobAcme == BuildJob(ItemAcme, 1)

JobUniverse == {JobGoogle, JobGoogleTwin, JobAcme}

BatchUniverse == SeqsUpTo(JobUniverse, MaxBatch)

\* the orders a batch of n records can be passed in
Orders(n) ==
    {p \in [1..n -> 1..n] : \A i, j \in 1..n : p[i] = p[j] => i = j}

Permute(jobs, p) == [i \in 1..Len(jobs) |-> jobs[p[i]]]

\* the fingerprints table jobs holds
StoredHashes(table) == {row.job_hash : row \in table}

\* what insertJobs resolves with and what it leaves in table jobs
InsertResult(jobs, table, failing) ==
    LET res == insertJobs(jobs, table, failing)
    IN [ inserted   |-> res.inserted,
         duplicated |-> res.duplicated,
         hashes     |-> StoredHashes(res.table) ]

\* what the row callback of the i-th record counts, read off the counters
\* before and after that record: "inserted", "duplicated" or "neither"
CountedAt(jobs, table, failing, i) ==
    LET before == insertJobs(SubSeq(jobs, 1, i - 1), table, failing \cap (1..(i - 1)))
        after  == insertJobs(SubSeq(jobs, 1, i), table, failing \cap (1..i))
    IN IF after.inserted = before.inserted + 1 THEN "inserted"
       ELSE IF after.duplicated = before.duplicated + 1 THEN "duplicated"
       ELSE "neither"

\* table jobs when the i-th statement of the batch runs
TableAt(jobs, table, failing, i) ==
    insertJobs(SubSeq(jobs, 1, i - 1), table, failing \cap (1..(i - 1))).table

\* a call insertJobs(jobs) on table jobs; failing: the records whose write the
\* store fails; res: what the statements of the batch did; repeated: the call
\* before it was given the same batch and resolved
InsertJobsCall(jobs, failing, outcome, res) ==
    [ op         |-> "insertJobs",
      jobs       |-> jobs,
      failing    |-> failing,
      outcome    |-> outcome,
      before     |-> jobsTable,
      inserted   |-> res.inserted,
      duplicated |-> res.duplicated,
      repeated   |-> /\ probe.op = "insertJobs"
                     /\ probe.outcome = "resolved"
                     /\ probe.jobs = jobs ]

\* insertJobs(jobs) resolves
StoreInsertResolves ==
    /\ \E jobs \in BatchUniverse :
          \E failing \in FailureSets(Len(jobs), MaxRowFailures) :
             LET res == insertJobs(jobs, jobsTable, failing)
             IN /\ jobsTable' = res.table
                /\ probe' = InsertJobsCall(jobs, failing, "resolved", res)
    /\ UNCHANGED <<mainPc, h1bTable, h1bCompanies, stats, clock, run>>

\* insertJobs(jobs) rejects: COMMIT failed
StoreInsertRejects ==
    /\ \E jobs \in BatchUniverse \ {<<>>} :
          \E failing \in FailureSets(Len(jobs), MaxRowFailures) :
             LET res == insertJobs(jobs, jobsTable, failing)
             IN /\ jobsTable' \in {jobsTable, res.table}
                /\ probe' = InsertJobsCall(jobs, failing, "rejected", res)
    /\ UNCHANGED <<mainPc, h1bTable, h1bCompanies, stats, clock, run>>

\* a database file without stored companies
StoreInit == Init /\ h1bTable = {}

StoreNext == StoreInsertResolves \/ StoreInsertRejects

\* a client that inserts batches into the database of the scraper
SpecStore == StoreInit /\ [][StoreNext]_vars

\* ------------------------------------------------------------------------
\* H1BJobScraper: the reference set loaded, then the matcher called name by name
\* ------------------------------------------------------------------------

\* rows of h1b_companies.csv
MaxRefRows == 2

\* cells of the employer column: plain, padded, quoted, quoted inside its
\* padding, and a name that is a legal-entity suffix only
RefCells ==
    { <<"G","o","o","g","l","e">>,
      <<" ","'","Z","e","d"," ","L","a","b","s","'"," ">>,
      <<" ","A","c","m","e"," ">>,
      <<"'","J","o","h","n","s","o","n"," ","C","o","n","t","r","o","l","s"," ","I","n","t","e","r","n","a","t","i","o","n","a","l","'">>,
      <<"\"","I","n","c",".","\"">> }

ReferenceRows == SeqsUpTo(RefCells, MaxRefRows)

\* company names of postings
NameUniverse ==
    { <<"G","o","o","g","l","e"," ","L","L","C">>,
      <<"A","C","M","E">>,
      <<" ","a","c","m","e"," ","c","o","r","p","."," ">>,
      <<"Z","e","d">>,
      <<"J","o","h","n","s","o","n"," ","&"," ","J","o","h","n","s","o","n">>,
      <<"g","o">>,
      <<"T","e","c","h"," ","S","o","l","u","t","i","o","n","s">>,
      EmptyStr }

\* cleaned names, as isH1BCompany passes them to isSubstantialMatch
CleanedNames ==
    {cleanCompanyName(trim(toLowerCase(n))) : n \in NameUniverse}
       \cup UNION {{cleanCompanyName(c) : c \in LoadCsv(<<cell>>)} : cell \in RefCells}

\* initialize(): the reference set is loaded and, when it has a name, stored
LoadReference ==
    /\ \E rows \in ReferenceRows :
          h1bCompanies' = loadH1BCompanies(h1bTable, rows)
    /\ h1bTable' = IF Cardinality(h1bCompanies') > 0
                   THEN insertH1BCompanies(h1bCompanies', h1bTable)
                   ELSE h1bTable
    /\ probe' = [op |-> "initialize"]
    /\ UNCHANGED <<mainPc, stats, jobsTable, clock, run>>

\* isH1BCompany(name) and isH1BCompany(name.toUpperCase()), name being the
\* company of a posting or a name of the reference set as it is stored
CheckCompany ==
    /\ probe.op # "none"
    /\ \E name \in NameUniverse \cup h1bCompanies :
          probe' = [ op     |-> "isH1BCompany",
                     name   |-> name,
                     result |-> isH1BCompany(name, h1bCompanies),
                     upper  |-> isH1BCompany(toUpperCase(name), h1bCompanies) ]
    /\ UNCHANGED <<mainPc, h1bTable, h1bCompanies, stats, jobsTable, clock, run>>

\* isSubstantialMatch(name1, name2) and isSubstantialMatch(name2, name1)
CompareNames ==
    /\ probe.op # "none"
    /\ \E name1, name2 \in CleanedNames :
          probe' = [ op      |-> "isSubstantialMatch",
                     name1   |-> name1,
                     name2   |-> name2,
                     result  |-> isSubstantialMatch(name1, name2),
                     reverse |-> isSubstantialMatch(name2, name1) ]
    /\ UNCHANGED <<mainPc, h1bTable, h1bCompanies, stats, jobsTable, clock, run>>

MatcherNext == LoadReference \/ CheckCompany \/ CompareNames

\* a client that loads the reference set and asks the matcher
SpecMatcher == Init /\ [][MatcherNext]_vars

\* ------------------------------------------------------------------------
\* The functions of JobRecordBuilder and generateJobHash called value by value
\* ------------------------------------------------------------------------

\* apply options of one posting
MaxOptions == 2

\* job.description of a posting
DescriptionUniverse ==
    { Absent,
      EmptyStr,
      <<"R","e","m","o","t","e">>,
      <<"R","E","M","O","T","E",","," ","s","o","m","e"," ","d","a","y","s"," ","i","n"," ","t","h","e"," ","o","f","f","i","c","e">>,
      <<"O","n","s","i","t","e">>,
      <<"O","n","-","s","i","t","e"," ","o","n","l","y">>,
      <<"R","e","m","o","t","e"," ","o","r"," ","o","n","s","i","t","e">>,
      <<"O","f","f","i","c","e","r"," ","t","r","a","i","n","i","n","g">>,
      <<"D","a","t","a"," ","p","i","p","e","l","i","n","e","s">> }

\* job.extensions of a posting
ExtensionsUniverse ==
    { AbsentList,
      <<>>,
      << <<"F","u","l","l","-","t","i","m","e">> >>,
      << <<"W","o","r","k"," ","f","r","o","m"," ","h","o","m","e">>, <<"R","e","m","o","t","e">> >>,
      << <<"I","n"," ","o","f","f","i","c","e">> >>,
      << <<"o","n">>, <<"s","i","t","e">> >> }

\* one entry of job.apply_options
OptionUniverse ==
    { [title |-> <<"I","n","d","e","e","d">>, link |-> <<"i","n",".","d","e","/","1">>],
      [title |-> <<"C","a","r","e","e","r","s">>, link |-> <<"g",".","c","o","/","2">>],
      [title |-> <<"L","i","n","k","e","d","I","n">>, link |-> <<"l","i",".","c","o","m","/","J","O","B","S","/","3">>],
      [title |-> <<"A","p","p","l","y">>, link |-> <<"l","e","v","e","r",".","c","o","/","4">>],
      [title |-> <<"W","O","R","K","D","A","Y">>, link |-> <<"w",".","c","o","m","/","5">>] }

ApplyOptionsUniverse == SeqsUpTo(OptionUniverse, MaxOptions) \cup {AbsentOptions}

\* extractWorkSetting(description, extensions)
CallExtractWorkSetting ==
    /\ \E description \in DescriptionUniverse, extensions \in ExtensionsUniverse :
          probe' = [ op          |-> "extractWorkSetting",
                     description |-> description,
                     extensions  |-> extensions,
                     result      |-> extractWorkSetting(description, extensions) ]
    /\ UNCHANGED <<mainPc, h1bTable, h1bCompanies, stats, jobsTable, clock, run>>

\* getATSApplyLink(applyOptions)
CallGetATSApplyLink ==
    /\ \E applyOptions \in ApplyOptionsUniverse :
          probe' = [ op           |-> "getATSApplyLink",
                     applyOptions |-> applyOptions,
                     result       |-> getATSApplyLink(applyOptions) ]
    /\ UNCHANGED <<mainPc, h1bTable, h1bCompanies, stats, jobsTable, clock, run>>

\* records that differ in the four fields generateJobHash reads
KeyJobs ==
    { [JobAcme EXCEPT !.company_name = company, !.job_title = title,
                      !.job_location = location, !.posting_time = time] :
        company \in {<<"C","o","c","a","-","C","o","l","a">>, <<"C","o","c","a">>},
        title \in {<<"D","a","t","a">>, <<"C","o","l","a","-","D","a","t","a">>},
        location \in {<<"N","Y","C">>, EmptyStr},
        time \in {<<"1","d">>, EmptyStr} }

\* generateJobHash(job1), generateJobHash(job2), and what insertJobs counts
\* job2 as when it follows job1 in a batch on an empty table
CallGenerateJobHash ==
    /\ \E job1, job2 \in KeyJobs :
          probe' = [ op     |-> "generateJobHash",
                     job1   |-> job1,
                     job2   |-> job2,
                     hash1  |-> generateJobHash(job1),
                     hash2  |-> generateJobHash(job2),
                     second |-> CountedAt(<<job1, job2>>, {}, {}, 2) ]
    /\ UNCHANGED <<mainPc, h1bTable, h1bCompanies, stats, jobsTable, clock, run>>

CallsNext == CallExtractWorkSetting \/ CallGetATSApplyLink \/ CallGenerateJobHash

\* a client that calls the functions one after the other
SpecCalls == StoreInit /\ [][CallsNext]_vars

\* ------------------------------------------------------------------------
\* Properties
\* ------------------------------------------------------------------------

RECURSIVE Sum(_)
Sum(seq) == IF seq = <<>> THEN 0 ELSE Head(seq) + Sum(Tail(seq))

Ended(s) == run[s].pc \in {"done", "failed"}

\* the offset a request asks the provider for: its start parameter, 0 without
RequestOffset(request) ==
    IF "start" \in DOMAIN request.params THEN request.params.start ELSE 0

\* C1. insertJobs applies a batch all or nothing: when the write of a record
\* of the batch fails, insertJobs rejects and table jobs is as it was before
\* the batch; otherwise the insert-or-skip decision of every record is counted.
C1_BatchAllOrNothing ==
    \A s \in Slots :
        run[s].insertOutcome # "none" =>
            IF run[s].rowFailures # {}
            THEN run[s].insertOutcome = "rejected" /\ jobsTable = run[s].tableBefore
            ELSE run[s].insertOutcome = "resolved" =>
                    stats.jobsInserted + stats.jobsDuplicated = Len(run[s].allJobs)

\* C2. Every execution of scrapeJobs that has ended has called logScrapingRun
\* exactly once, whether it returned or threw.
C2_LogCalledExactlyOnce ==
    \A s \in Slots : Ended(s) => run[s].logCalls = 1

\* C3. When the log write in the catch block of scrapeJobs fails, scrapeJobs
\* still rejects with the failure that made the run fail.
C3_OriginalFailurePropagates ==
    \A s \in Slots :
        run[s].pc = "failed" /\ run[s].logFailedInCatch => run[s].thrown = run[s].caught

C4_FailedFetchState ==
    \A s \in Slots :
        run[s].failedCalls > 0 =>
            /\ stats.status = "error"
            /\ stats.errorMessage = ErrFetch
            /\ ~run[s].returned
            /\ run[s].caught = ErrFetch
            /\ run[s].pc \in {"errlogging", "failed"}

C4_NoFetchAfterFailure ==
    \A s \in Slots :
        run[s].failedCalls > 0 /\ run'[s].failedCalls > 0 =>
            run'[s].requests = run[s].requests

\* C4. After a failed page fetch the status is 'error', the message is that of
\* the fetch failure, processJobs has returned no list and has thrown the fetch
\* failure to scrapeJobs, and the run sends no further request.
C4_FetchFailureAbortsRun ==
    []C4_FailedFetchState /\ [][C4_NoFetchAfterFailure]_vars

C4_Witness ==
    \E s \in Slots :
        /\ run[s].failedCalls > 0
        /\ run[s].page = 1
        /\ Len(run[s].allJobs) > 0
        /\ run[s].pc = "failed"

\* C5. When an execution has ended, apiCallsMade is the number of requests it
\* sent to the search provider, failed ones included.
C5_ApiCallsCountEveryCall ==
    \A s \in Slots : Ended(s) => stats.apiCallsMade = Len(run[s].requests)

\* C6. The scraper does not go on to fetch with an empty reference set:
\* initialize() fails when no company name could be loaded.
C6_EmptyReferenceSetFailsFast ==
    mainPc = "scheduled" => h1bCompanies # {}

C7_StepAfterEmptyPage ==
    \A s \in Slots :
        run[s].sawEmpty /\ run'[s].sawEmpty => run'[s].requests = run[s].requests

\* C7. Once a response of a run has carried zero results, the run sends no
\* further request: processJobs returns.
C7_EmptyPageStopsPagination ==
    /\ [](\A s \in Slots : run[s].sawEmpty => run[s].returned /\ run[s].pc # "fetching")
    /\ [][C7_StepAfterEmptyPage]_vars

C7_Witness ==
    \E s \in Slots :
        /\ run[s].sawEmpty
        /\ Len(run[s].requests) = 2
        /\ run[s].pc = "done"

\* C8. A run sends at most three requests to the search provider.
C8_AtMostThreeCalls ==
    \A s \in Slots : Len(run[s].requests) <= 3

C8_Witness ==
    \E s \in Slots :
        /\ Len(run[s].requests) = 3
        /\ Sum(run[s].pageSizes) > 2
        /\ run[s].returned

\* C9. The k-th request of a run (k = 0, 1, 2) asks for offset 10 * k.
C9_RequestOffsetsAdvance ==
    \A s \in Slots :
        \A k \in 1..Len(run[s].requests) :
            RequestOffset(run[s].requests[k]) = 10 * (k - 1)

\* C10. When processJobs has returned, jobsScraped is the number of items of
\* all responses, jobsFiltered the number of them whose company passes
\* isH1BCompany, and the list has jobsFiltered records; ten items with three
\* of sponsors, then an empty page: 10, 3, 2 calls and 3 records.
C10_CountersAtReturn ==
    \A s \in Slots :
        run[s].returned =>
            /\ stats.jobsScraped = Sum(run[s].pageSizes)
            /\ stats.jobsFiltered = run[s].fetchedMatches
            /\ Len(run[s].allJobs) = stats.jobsFiltered
            /\ ( /\ run[s].pageSizes = <<10, 0>>
                 /\ SponsorCount(ExamplePage, h1bCompanies) = 3 )
               => /\ stats.jobsScraped = 10
                  /\ stats.jobsFiltered = 3
                  /\ stats.apiCallsMade = 2
                  /\ Len(run[s].allJobs) = 3

C10_Witness ==
    \E s \in Slots :
        /\ run[s].returned
        /\ run[s].pageSizes = <<10, 0>>
        /\ SponsorCount(ExamplePage, h1bCompanies) = 3
        /\ Len(run[s].allJobs) = 3
        /\ clock = 2

ResolvedCall == probe.op = "insertJobs" /\ probe.outcome = "resolved"

\* C11. A call of insertJobs with the batch the call before it was given (and
\* resolved with) counts no record as inserted and every record as duplicated,
\* and leaves table jobs as it found it.
C11_SecondCallAllDuplicates ==
    ResolvedCall /\ probe.repeated =>
        /\ probe.inserted = 0
        /\ probe.duplicated = Len(probe.jobs)
        /\ jobsTable = probe.before

\* C12. On the table a call of insertJobs found, the same records passed in
\* any other order (each record keeping the outcome of its write) give the
\* counts the call resolved with and the fingerprints it left in table jobs.
C12_OrderIndependent ==
    ResolvedCall =>
        \A p \in Orders(Len(probe.jobs)) :
            InsertResult(Permute(probe.jobs, p), probe.before,
                         {i \in 1..Len(probe.jobs) : p[i] \in probe.failing})
              = [ inserted   |-> probe.inserted,
                  duplicated |-> probe.duplicated,
                  hashes     |-> StoredHashes(jobsTable) ]

C12_Witness ==
    /\ ResolvedCall
    /\ Len(probe.jobs) = 2
    /\ HasHash(probe.before, generateJobHash(probe.jobs[1]))
    /\ ~HasHash(probe.before, generateJobHash(probe.jobs[2]))
    /\ probe.inserted = 1
    /\ probe.duplicated = 1

\* C13. insertJobs counts a record whose write did not fail as inserted when
\* its fingerprint was not in table jobs when its statement ran (neither
\* stored before the batch nor written by an earlier record of the batch) and
\* as duplicated otherwise, and a record whose write failed as neither;
\* inserted is the number of fingerprints the call added to the table, and
\* with no failed write inserted + duplicated is the size of the batch.
C13_CountsFollowStore ==
    ResolvedCall =>
        LET n == Len(probe.jobs)
            counted == [i \in 1..n |-> CountedAt(probe.jobs, probe.before, probe.failing, i)]
        IN /\ \A i \in 1..n :
                 counted[i] =
                    IF i \in probe.failing THEN "neither"
                    ELSE IF HasHash(TableAt(probe.jobs, probe.before, probe.failing, i),
                                    generateJobHash(probe.jobs[i]))
                         THEN "duplicated"
                    ELSE "inserted"
           /\ probe.inserted = Cardinality({i \in 1..n : counted[i] = "inserted"})
           /\ probe.duplicated = Cardinality({i \in 1..n : counted[i] = "duplicated"})
           /\ probe.inserted =
                 Cardinality(StoredHashes(jobsTable) \ StoredHashes(probe.before))
           /\ probe.failing = {} => probe.inserted + probe.duplicated = n

C13_Witness ==
    /\ ResolvedCall
    /\ probe.failing = {}
    /\ Len(probe.jobs) = 2
    /\ probe.jobs[1] # probe.jobs[2]
    /\ generateJobHash(probe.jobs[1]) = generateJobHash(probe.jobs[2])
    /\ ~HasHash(probe.before, generateJobHash(probe.jobs[1]))
    /\ probe.inserted = 1
    /\ probe.duplicated = 1

\* the four fields of a record or row that generateJobHash reads
SameKeyFields(a, b) ==
    /\ a.company_name = b.company_name
    /\ a.job_title = b.job_title
    /\ a.job_location = b.job_location
    /\ a.posting_time = b.posting_time

\* C14. Rows and records with the same company name, title, location and
\* posting time have the same fingerprint, whatever their other fields: two
\* such rows of table jobs, and a row stored by an earlier call and a record
\* of the batch of this call.
C14_HashOfFourFields ==
    /\ \A r1, r2 \in jobsTable : SameKeyFields(r1, r2) => r1.job_hash = r2.job_hash
    /\ probe.op = "insertJobs" =>
          \A i \in 1..Len(probe.jobs) :
             \A r \in jobsTable :
                SameKeyFields(r, probe.jobs[i]) => r.job_hash = generateJobHash(probe.jobs[i])

C14_Witness ==
    /\ ResolvedCall
    /\ probe.duplicated > 0
    /\ \E i \in 1..Len(probe.jobs) :
          \E r \in probe.before :
             /\ SameKeyFields(r, probe.jobs[i])
             /\ r.job_type # probe.jobs[i].job_type
             /\ r.job_description # probe.jobs[i].job_description
             /\ r.work_setting # probe.jobs[i].work_setting
             /\ r.ats_apply_link # probe.jobs[i].ats_apply_link
             /\ r.scraped_at # probe.jobs[i].scraped_at

\* C15. A run in which a fetch, the write of a job row or the CSV write
\* failed ends with status 'error' and the message of that failure, and it has
\* written no run-log row with status 'success'.
C15_EveryFailureSetsError ==
    \A s \in Slots :
        Ended(s) =>
            /\ run[s].failedCalls > 0 =>
                  stats.status = "error" /\ stats.errorMessage = ErrFetch
            /\ run[s].rowFailures # {} =>
                  stats.status = "error" /\ stats.errorMessage # "null"
            /\ run[s].caught = ErrCsv =>
                  stats.status = "error" /\ stats.errorMessage = ErrCsv
            /\ (\E k \in 1..Len(run[s].logRows) : run[s].logRows[k].status = "success") =>
                  /\ run[s].failedCalls = 0
                  /\ run[s].rowFailures = {}
                  /\ run[s].caught # ErrCsv

\* C16. The row an execution of scrapeJobs logs holds the counts of that
\* execution alone (its own items, its own matches, its own answered calls)
\* and its own status, also when another execution overlaps it.
C16_StatsIsolated ==
    \A s \in Slots :
        \A k \in 1..Len(run[s].logRows) :
            /\ run[s].logRows[k].jobs_scraped = Sum(run[s].pageSizes)
            /\ run[s].logRows[k].jobs_filtered = run[s].fetchedMatches
            /\ run[s].logRows[k].api_calls_made = Len(run[s].pageSizes)
            /\ (run[s].logRows[k].status = "success") = (run[s].caught = "none")

\* C17. While a request of a run is in flight, every earlier request of the
\* run has been answered and every item of every answer has been classified
\* and, when its company is a sponsor, built and appended to the list.
C17_PagesInSequence ==
    \A s \in Slots :
        run[s].pc = "fetching" =>
            /\ Len(run[s].requests) = Len(run[s].pageSizes) + 1
            /\ Len(run[s].allJobs) = run[s].fetchedMatches
            /\ stats.jobsFiltered = run[s].fetchedMatches
            /\ stats.jobsScraped = Sum(run[s].pageSizes)
            /\ \A k \in 1..Len(run[s].allJobs) :
                  isH1BCompany(run[s].allJobs[k].company_name, h1bCompanies)

C17_Witness ==
    \E s \in Slots :
        /\ run[s].pc = "fetching"
        /\ run[s].pageSizes = <<10>>
        /\ Len(run[s].requests) = 2
        /\ Len(run[s].allJobs) = 3

\* C18. isH1BCompany answers true for every name of the reference set, passed
\* exactly as the set holds it.
C18_StoredNamesMatch ==
    probe.op = "isH1BCompany" /\ probe.name \in h1bCompanies => probe.result

C18_Witness ==
    /\ probe.op = "isH1BCompany"
    /\ probe.name \in h1bCompanies
    /\ Cardinality(h1bCompanies) = 2
    /\ probe.result

\* C19. isH1BCompany gives a company name and the same name in upper case the
\* same answer.
C19_CaseInsensitive ==
    probe.op = "isH1BCompany" => probe.result = probe.upper

C19_Witness ==
    /\ probe.op = "isH1BCompany"
    /\ toUpperCase(probe.name) # probe.name
    /\ toLowerCase(probe.name) # probe.name
    /\ probe.name \notin h1bCompanies
    /\ probe.result
    /\ probe.upper

\* the tokens of a cleaned name: its pieces between spaces that are longer
\* than two characters, as a set
TokenSet(name) ==
    {w \in {splitSpace(name)[i] : i \in 1..Len(splitSpace(name))} : Len(w) > 2}

\* C20. isSubstantialMatch answers true exactly when both token sets are
\* non-empty and |intersection| / min(|tokens1|, |tokens2|) >= 0.6; it gives
\* the same answer with its arguments exchanged, and false when a token set
\* is empty.
C20_TokenOverlapRule ==
    probe.op = "isSubstantialMatch" =>
        LET tokens1 == TokenSet(probe.name1)
            tokens2 == TokenSet(probe.name2)
        IN /\ probe.result =
                 ( /\ tokens1 # {}
                   /\ tokens2 # {}
                   /\ 10 * Cardinality(tokens1 \cap tokens2) >=
                         6 * Min(Cardinality(tokens1), Cardinality(tokens2)) )
           /\ probe.result = probe.reverse
           /\ (tokens1 = {} \/ tokens2 = {}) => ~probe.result

\* a keyword occurs in the description or in one of the extensions, whatever
\* the case of the letters
Mentions(description, extensions, keyword) ==
    \/ description # Absent /\ includes(toLowerCase(description), keyword)
    \/ /\ extensions # AbsentList
       /\ \E i \in 1..Len(extensions) : includes(toLowerCase(extensions[i]), keyword)

\* C21. extractWorkSetting returns Hybrid exactly when the text mentions
\* 'remote' and ('onsite' or 'office'), else Remote exactly when it mentions
\* 'remote', else Onsite exactly when it mentions 'onsite', 'office' or
\* 'on-site', else Not Specified: one of the four values for every input, an
\* absent description included.
C21_WorkSettingRule ==
    probe.op = "extractWorkSetting" =>
        LET has(keyword) == Mentions(probe.description, probe.extensions, keyword)
            remote == has(kwRemote)
            office == has(kwOnsite) \/ has(kwOffice)
        IN /\ probe.result \in WorkSettings
           /\ (probe.result = "Hybrid") = (remote /\ office)
           /\ (probe.result = "Remote") = (remote /\ ~office)
           /\ (probe.result = "Onsite") = (~remote /\ (office \/ has(kwOnDashSite)))
           /\ (probe.result = "Not Specified") = (~remote /\ ~office /\ ~has(kwOnDashSite))

C21_Witness ==
    /\ probe.op = "extractWorkSetting"
    /\ probe.result = "Hybrid"
    /\ probe.extensions # AbsentList
    /\ ~Mentions(probe.description, AbsentList, kwRemote)
    /\ Mentions(Absent, probe.extensions, kwRemote)

\* the options that have the k-th priority term in their title or link
OptionsWith(applyOptions, k) ==
    {i \in 1..Len(applyOptions) : OptionHas(applyOptions[i], priorities[k])}

\* C22. getATSApplyLink returns the empty string for an absent or empty list;
\* the link of the first option when no option has a priority term; otherwise
\* the link of the first option in list order that has the first term, in
\* the order career, jobs, workday, greenhouse, lever, bamboohr, that any
\* option has, letters compared without case.
C22_ApplyLinkRule ==
    probe.op = "getATSApplyLink" =>
        LET options == probe.applyOptions
            matched == IF options = AbsentOptions THEN {}
                       ELSE {k \in 1..Len(priorities) : OptionsWith(options, k) # {}}
        IN IF options = AbsentOptions \/ options = <<>> THEN probe.result = EmptyStr
           ELSE IF matched = {} THEN probe.result = options[1].link
           ELSE LET best  == CHOOSE k \in matched : \A j \in matched : k <= j
                    first == CHOOSE i \in OptionsWith(options, best) :
                                \A j \in OptionsWith(options, best) : i <= j
                IN probe.result = options[first].link

C22_Witness ==
    /\ probe.op = "getATSApplyLink"
    /\ probe.applyOptions # AbsentOptions
    /\ Len(probe.applyOptions) = 2
    /\ OptionsWith(probe.applyOptions, 1) = {2}
    /\ OptionsWith(probe.applyOptions, 2) = {1}
    /\ probe.result = probe.applyOptions[2].link

\* C26. Two records that differ in company name, title, location or posting
\* time have different fingerprints, and insertJobs counts the second of two
\* records as duplicated only when the four fields of the two are the same.
C26_DistinctFieldsDistinctKeys ==
    probe.op = "generateJobHash" =>
        /\ ~SameKeyFields(probe.job1, probe.job2) => probe.hash1 # probe.hash2
        /\ probe.second = "duplicated" => SameKeyFields(probe.job1, probe.job2)

\* lower-cased, without leading or trailing whitespace, without a quote
\* character at either end
LightNormalized(name) ==
    /\ toLowerCase(name) = name
    /\ trim(name) = name
    /\ name # <<>> => ~IsQuote(Head(name)) /\ ~IsQuote(name[Len(name)])

\* C24. Every name of the reference set is lower-cased, has no leading or
\* trailing whitespace and no quote character around it, whether the set was
\* loaded from the CSV file or from table h1b_companies, where the names are
\* stored in the same form.
C24_ReferenceSetNormalized ==
    /\ \A name \in h1bCompanies : LightNormalized(name)
    /\ \A row \in h1bTable : LightNormalized(row.normalized_name)

\* C27. With a non-empty reference set that does not hold the normalized
\* name, isH1BCompany answers false for a name whose cleaned form is empty,
\* and an entry whose cleaned form is empty makes no name match: the answer
\* is true only when an entry with a non-empty cleaned form matches.
C27_EmptyCleanedFormNoMatch ==
    probe.op = "isH1BCompany" /\ Truthy(probe.name) =>
        LET normalizedName == trim(toLowerCase(probe.name))
            proper == {h \in h1bCompanies : cleanCompanyName(h) # EmptyStr}
        IN h1bCompanies # {} /\ normalizedName \notin h1bCompanies =>
              /\ cleanCompanyName(normalizedName) = EmptyStr => ~probe.result
              /\ probe.result => \E h \in proper : FuzzyMatch(normalizedName, h)

C25_RowsKept == \A row \in jobsTable : row \in jobsTable'

\* C25. Table jobs never holds two rows with the same fingerprint, and a
\* row it holds is still there, unchanged, after every later call of
\* insertJobs, whatever the batches are and whether the calls resolve.
C25_OneRowPerFingerprint ==
    /\ [](\A r1, r2 \in jobsTable : r1.job_hash = r2.job_hash => r1 = r2)
    /\ [][C25_RowsKept]_vars

C25_Witness ==
    /\ ResolvedCall
    /\ Len(probe.jobs) = 2
    /\ probe.jobs[1] # probe.jobs[2]
    /\ generateJobHash(probe.jobs[1]) = generateJobHash(probe.jobs[2])
    /\ \E row \in probe.before :
          /\ row.job_hash = generateJobHash(probe.jobs[1])
          /\ row.scraped_at # probe.jobs[1].scraped_at
          /\ row \in jobsTable
    /\ Cardinality(jobsTable) = Cardinality(probe.before)

\* the records a run has built, backed up or stored
RunRecords ==
    UNION {{run[s].allJobs[k] : k \in 1..Len(run[s].allJobs)} : s \in Slots}
      \cup UNION {{run[s].csvRecords[k] : k \in 1..Len(run[s].csvRecords)} : s \in Slots}
      \cup jobsTable

\* C23, as stated. The company name and the job title of every record a run
\* produces are non-empty strings.
C23_FieldsNonEmpty ==
    \A record \in RunRecords : Truthy(record.company_name) /\ Truthy(record.job_title)

\* C23, amended. The company name and the job title of every record a run
\* produces are strings, never absent; the company name is non-empty, the
\* job title is the empty string when the posting has none.
C23_FieldsPresent ==
    \A record \in RunRecords :
        /\ Truthy(record.company_name)
        /\ record.job_title # Absent

C23_Witness ==
    \E s \in Slots :
        /\ run[s].pc = "done"
        /\ \E k \in 1..Len(run[s].csvRecords) :
              /\ run[s].csvRecords[k].job_title = EmptyStr
              /\ run[s].csvRecords[k].company_name # EmptyStr
              /\ JobRow(run[s].csvRecords[k]) \in jobsTable

\* C28. Every run-log row with status 'success' of a run has
\* jobs_inserted + jobs_duplicated = jobs_filtered and
\* jobs_filtered <= jobs_scraped.
C28_LoggedCountsAddUp ==
    \A s \in Slots :
        \A k \in 1..Len(run[s].logRows) :
            run[s].logRows[k].status = "success" =>
                /\ run[s].logRows[k].jobs_inserted + run[s].logRows[k].jobs_duplicated
                     = run[s].logRows[k].jobs_filtered
                /\ run[s].logRows[k].jobs_filtered <= run[s].logRows[k].jobs_scraped

\* a run that has ended, in which no fetched item matched and neither a
\* fetch nor a write of the run log failed
ZeroFilterRun(s) ==
    /\ Ended(s)
    /\ run[s].fetchedMatches = 0
    /\ run[s].failedCalls = 0
    /\ run[s].caught # ErrLog
    /\ ~run[s].logFailedInCatch

C29_ZeroFilterState ==
    \A s \in Slots :
        ZeroFilterRun(s) =>
            /\ run[s].insertOutcome = "none"
            /\ run[s].csvRecords = <<>>
            /\ stats.jobsInserted = 0
            /\ stats.jobsDuplicated = 0
            /\ Len(run[s].logRows) = 1
            /\ run[s].logRows[1].status = "success"
            /\ run[s].logRows[1].jobs_inserted = 0
            /\ run[s].logRows[1].jobs_duplicated = 0

C29_StoreFrame ==
    jobsTable' # jobsTable => \E s \in Slots : run[s].fetchedMatches > 0

\* C29. A run in which no fetched item matches (the first page may be
\* empty) never calls insertJobs and appends nothing to the CSV backup,
\* table jobs changes only in steps of a run that has a match, jobsInserted
\* and jobsDuplicated stay 0, and the run writes exactly one run-log row,
\* with status 'success'.
C29_ZeroFilterFrame ==
    []C29_ZeroFilterState /\ [][C29_StoreFrame]_vars

C29_Witness ==
    \E s \in Slots :
        /\ ZeroFilterRun(s)
        /\ Sum(run[s].pageSizes) > 0
        /\ clock = 2
        /\ jobsTable # {}

====
